---- MODULE Spec2Model ----
(***************************************************************************)
(* Model of scripts/calc_renta.py: the rent-adjustment calculator.         *)
(*                                                                         *)
(*   main()              reads the amount, fetches the series, calls the   *)
(*                       engine and prints the result                      *)
(*   obtener_datos_ipc() fetches the series and sorts it descending        *)
(*   calcular_ajuste()   selects the window, prints the breakdown and      *)
(*                       compounds                                         *)
(*                                                                         *)
(* Numbers.  A rate (ipc_mensual) is an integer in units of 1/10000, so    *)
(* 0.04 is 400, 2.0 is 20000 and -1.5 is -15000.  An amount is the decimal *)
(* [mant, dec] = mant * 10^-dec in canonical form.  A product of factors   *)
(* is kept factored, as the sequence of the factors multiplied in, in the  *)
(* order of the multiplications; the empty sequence is 1.0.                *)
(* A period (fecha) is the ordinal of its month.                           *)
(***************************************************************************)
EXTENDS Integers, Sequences, FiniteSets

VARIABLES
    pc,                 \* position of the run
    input_val,          \* main: the text typed by the user
    monto_actual,       \* main / calcular_ajuste: the parsed amount
    df_ipc,             \* main's df, calcular_ajuste's df_ipc: the series
    ultimos_4_meses,    \* calcular_ajuste: the selected window
    i,                  \* calcular_ajuste: 1-based position of the for loop
    factor_acumulado,   \* calcular_ajuste: the running product, factored
    retorno,            \* <<>> or <<nuevo_monto, incremento_total_pct>>
    excepcion,          \* the exception that ended the run, or "ninguna"
    console,            \* the lines printed so far
    peticiones          \* number of requests.get calls made so far

vars == <<pc, input_val, monto_actual, df_ipc, ultimos_4_meses, i,
          factor_acumulado, retorno, excepcion, console, peticiones>>

-----------------------------------------------------------------------------
(* Bounds *)

\* longest text the user types
MaxTexto == 3
\* number of periods the indicator has published
MaxPeriodos == 5

\* characters the user's text is made of
Alfabeto == {"0", "5", "-", ".", "a"}
Digitos == {"0", "5"}

Fechas == 1..MaxPeriodos

-----------------------------------------------------------------------------
(* Program constants *)

\* df_ipc.head(4)
TamVentana == 4
\* "coeficiente < 2", in units of 1/10000
Umbral == 20000

Min(a, b) == IF a < b THEN a ELSE b

-----------------------------------------------------------------------------
(* float(input_val): the user's text *)

Textos == UNION {[1..n -> Alfabeto] : n \in 0..MaxTexto}

ValorDigito(c) == IF c = "5" THEN 5 ELSE 0

\* the integer written by the digits of t, the other characters left out
RECURSIVE Mantisa(_)
Mantisa(t) ==
    IF t = <<>> THEN 0
    ELSE LET c == t[Len(t)]
             resto == Mantisa(SubSeq(t, 1, Len(t) - 1))
         IN IF c \in Digitos THEN 10 * resto + ValorDigito(c) ELSE resto

\* mant * 10^-dec without trailing decimal zeros: equal floats, equal records
RECURSIVE Canon(_, _)
Canon(mant, dec) ==
    IF dec > 0 /\ mant % 10 = 0 THEN Canon(mant \div 10, dec - 1)
    ELSE [mant |-> mant, dec |-> dec]

\* float(t), for a text over Alfabeto: [-] (D+ [. D*] | . D+); anything else
\* raises ValueError (ok = FALSE)
ParseFloat(t) ==
    LET neg == Len(t) > 0 /\ t[1] = "-"
        cuerpo == IF neg THEN Tail(t) ELSE t
        puntos == {k \in 1..Len(cuerpo) : cuerpo[k] = "."}
        ok == /\ \A k \in 1..Len(cuerpo) : cuerpo[k] \in Digitos \cup {"."}
              /\ Cardinality(puntos) <= 1
              /\ \E k \in 1..Len(cuerpo) : cuerpo[k] \in Digitos
        dec == IF puntos = {} THEN 0
               ELSE Len(cuerpo) - (CHOOSE k \in puntos : TRUE)
        mant == Mantisa(cuerpo)
    IN [ok |-> ok,
        valor |-> Canon(IF neg THEN 0 - mant ELSE mant, dec)]

\* the value of a variable that has not been assigned yet
SinMonto == [mant |-> 0, dec |-> 0]

-----------------------------------------------------------------------------
(* The series *)

\* What the indicator publishes for period f, by format of the source:
\* fractions (0.04 = 4%), percentages (4.0 = 4%), values around the
\* threshold and below -1, or a text that is not a number in one period.
Publicado(f, formato) ==
    LET fraccion   == <<400, 500, 300, 600>>
        porcentaje == <<40000, 50000, 30000, 60000>>
        borde      == <<19900, 20000, 20100, -15000>>
        k == ((f - 1) % Len(fraccion)) + 1
    IN CASE formato = "fraccion"   -> [num |-> TRUE, v |-> fraccion[k]]
         [] formato = "porcentaje" -> [num |-> TRUE, v |-> porcentaje[k]]
         [] formato = "borde"      -> [num |-> TRUE, v |-> borde[k]]
         [] formato = "texto"      -> [num |-> (k # 2), v |-> fraccion[k]]

FormatosNumericos == {"fraccion", "porcentaje", "borde"}
Formatos == FormatosNumericos \cup {"texto"}

\* periods in any order, none twice
Ordenes ==
    UNION {{o \in [1..n -> Fechas] :
                \A a, b \in 1..n : a # b => o[a] # o[b]} : n \in 0..MaxPeriodos}

\* data['data'] of a response: rows [fecha, ipc_mensual] as the API sends them
DatosCrudos ==
    {[k \in 1..Len(o) |-> [fecha |-> o[k], valor |-> Publicado(o[k], f)]] :
        o \in Ordenes, f \in Formatos}

\* a DataFrame with columns fecha and ipc_mensual, handed to calcular_ajuste
Series ==
    {[k \in 1..Len(o) |-> [fecha |-> o[k], valor |-> Publicado(o[k], f).v]] :
        o \in Ordenes, f \in FormatosNumericos}

\* requests.get(API_URL) with raise_for_status() and response.json(): a
\* RequestException, a body without the key 'data', or the rows of 'data'
Respuestas ==
    {[estado |-> "conexion", data |-> <<>>], [estado |-> "cuerpo", data |-> <<>>]}
        \cup {[estado |-> "ok", data |-> d] : d \in DatosCrudos}

\* pd.to_numeric(df['ipc_mensual']): raises on a value that is not a number
ToNumeric(data) ==
    [ok |-> \A k \in 1..Len(data) : data[k].valor.num,
     serie |-> [k \in 1..Len(data) |->
                   [fecha |-> data[k].fecha, valor |-> data[k].valor.v]]]

\* s with row r inserted before the first row that must follow it
RECURSIVE Insertar(_, _, _)
Insertar(r, s, asc) ==
    IF s = <<>> THEN <<r>>
    ELSE IF (asc /\ r.fecha < s[1].fecha) \/ (~asc /\ r.fecha > s[1].fecha)
         THEN <<r>> \o s
         ELSE <<s[1]>> \o Insertar(r, Tail(s), asc)

RECURSIVE Ordenar(_, _)
Ordenar(s, asc) ==
    IF s = <<>> THEN <<>>
    ELSE Insertar(s[1], Ordenar(Tail(s), asc), asc)

\* sort_values that ignores ascending=True and sorts descending
SortValuesDescendente(s, asc) == Ordenar(s, FALSE)

\* df.sort_values(by='fecha', ascending=...): a new frame, df is not changed
SortValues(s, asc) == Ordenar(s, asc)

\* df.tail(n) in the place of df.head(n)
Cola(s, n) == SubSeq(s, Len(s) - Min(n, Len(s)) + 1, Len(s))

\* df.head(n)
Cabeza(s, n) == SubSeq(s, 1, Min(n, Len(s)))

-----------------------------------------------------------------------------
(* Arithmetic of calcular_ajuste *)

\* "coeficiente if coeficiente < 2 else coeficiente / 100"
PctReal(coeficiente) ==
    IF coeficiente < Umbral THEN coeficiente ELSE coeficiente \div 100

\* "1 + x", in units of 1/10000
UnoMas(x) == 10000 + x

\* "monto_actual * factor_acumulado"
NuevoMonto(monto, factores) == [base |-> monto, factores |-> factores]

\* "(factor_acumulado - 1) * 100"
IncrementoTotalPct(factores) == [factores |-> factores]

-----------------------------------------------------------------------------
(* Names *)

\* the names the module binds; no builtin is called coeficientes either
NombresGlobales ==
    {"requests", "pd", "datetime", "sys", "SERIES_ID", "API_URL",
     "obtener_datos_ipc", "calcular_ajuste", "main"}

\* the locals of calcular_ajuste that the loop body has bound when it
\* reaches "factor_mensual = 1 + coeficientes", for the row it is on
LocalesDelBucle(row) ==
    [monto_actual |-> monto_actual, df_ipc |-> df_ipc,
     ultimos_4_meses |-> ultimos_4_meses,
     factor_acumulado |-> factor_acumulado, row |-> row,
     inflacion_mensual |-> row.valor, coeficiente |-> row.valor]

\* a name that is neither a bound local nor a global raises NameError
Ligado(nombre, locales) ==
    nombre \in DOMAIN locales \/ nombre \in NombresGlobales

-----------------------------------------------------------------------------
(* main *)

Imprime(linea) == console' = Append(console, linea)

\* line 99
MainBanner ==
    /\ pc = "main"
    /\ Imprime(<<"banner">>)
    /\ pc' = "input"
    /\ UNCHANGED <<input_val, monto_actual, df_ipc, ultimos_4_meses, i,
                   factor_acumulado, retorno, excepcion, peticiones>>

\* MainInput without the return of line 106: the run goes on after the message
MainInputSinReturn ==
    /\ pc = "input"
    /\ \E texto \in Textos :
          /\ input_val' = texto
          /\ IF ParseFloat(texto).ok
             THEN /\ monto_actual' = ParseFloat(texto).valor
                  /\ UNCHANGED console
             ELSE /\ Imprime(<<"numero invalido">>)
                  /\ UNCHANGED monto_actual
    /\ pc' = "obtener"
    /\ UNCHANGED <<df_ipc, ultimos_4_meses, i, factor_acumulado, retorno,
                   excepcion, peticiones>>

\* lines 101-106
MainInput ==
    /\ pc = "input"
    /\ \E texto \in Textos :
          /\ input_val' = texto
          /\ IF ParseFloat(texto).ok
             THEN /\ monto_actual' = ParseFloat(texto).valor
                  /\ pc' = "obtener"
                  /\ UNCHANGED console
             ELSE /\ Imprime(<<"numero invalido">>)
                  /\ pc' = "fin"
                  /\ UNCHANGED monto_actual
    /\ UNCHANGED <<df_ipc, ultimos_4_meses, i, factor_acumulado, retorno,
                   excepcion, peticiones>>

\* line 109 and obtener_datos_ipc, lines 17-44
ObtenerDatosIpc ==
    /\ pc = "obtener"
    /\ peticiones' = peticiones + 1
    /\ \E r \in Respuestas :
          IF r.estado = "conexion"
          THEN /\ console' = console \o <<<<"conectando">>, <<"error conexion">>>>
               /\ excepcion' = "SystemExit"
               /\ pc' = "exit"
               /\ UNCHANGED df_ipc
          ELSE IF r.estado = "cuerpo" \/ ~ToNumeric(r.data).ok
          THEN /\ console' = console \o <<<<"conectando">>, <<"error procesando">>>>
               /\ excepcion' = "SystemExit"
               /\ pc' = "exit"
               /\ UNCHANGED df_ipc
          ELSE /\ Imprime(<<"conectando">>)
               /\ df_ipc' = SortValues(ToNumeric(r.data).serie, FALSE)
               /\ pc' = "calcular"
               /\ UNCHANGED excepcion
    /\ UNCHANGED <<input_val, monto_actual, ultimos_4_meses, i,
                   factor_acumulado, retorno>>

\* lines 114-121
MainResultado ==
    /\ pc = "resultado"
    /\ Imprime(<<"resultado", monto_actual, retorno[2], retorno[1]>>)
    /\ pc' = "fin"
    /\ UNCHANGED <<input_val, monto_actual, df_ipc, ultimos_4_meses, i,
                   factor_acumulado, retorno, excepcion, peticiones>>

-----------------------------------------------------------------------------
(* calcular_ajuste *)

\* CalcSeleccion without .copy() and with sort_values(inplace=True) on the
\* caller's frame
CalcSeleccionEnSitio ==
    /\ pc = "calcular"
    /\ ultimos_4_meses' = SortValues(Cabeza(df_ipc, TamVentana), TRUE)
    /\ df_ipc' = SortValues(df_ipc, TRUE)
    /\ factor_acumulado' = <<>>
    /\ i' = 1
    /\ pc' = "encabezado"
    /\ UNCHANGED <<input_val, monto_actual, retorno, excepcion,
                   console, peticiones>>

\* lines 52-57
CalcSeleccion ==
    /\ pc = "calcular"
    /\ ultimos_4_meses' = SortValues(Cabeza(df_ipc, TamVentana), TRUE)
    /\ factor_acumulado' = <<>>
    /\ i' = 1
    /\ pc' = "encabezado"
    /\ UNCHANGED <<input_val, monto_actual, df_ipc, retorno, excepcion,
                   console, peticiones>>

\* lines 59-62
CalcEncabezado ==
    /\ pc = "encabezado"
    /\ console' = console \o
          <<<<"titulo">>, <<"linea">>, <<"cabecera">>, <<"linea">>>>
    /\ pc' = "bucle"
    /\ UNCHANGED <<input_val, monto_actual, df_ipc, ultimos_4_meses, i,
                   factor_acumulado, retorno, excepcion, peticiones>>

\* lines 64-89: one pass of the loop body
CalcIteracion ==
    /\ pc = "bucle"
    /\ i <= Len(ultimos_4_meses)
    /\ LET row == ultimos_4_meses[i]
           locales == LocalesDelBucle(row)
       IN IF ~Ligado("coeficientes", locales)
          THEN \* line 72: NameError, which nothing catches
               /\ excepcion' = "NameError"
               /\ pc' = "error"
               /\ UNCHANGED <<i, factor_acumulado, console>>
          ELSE LET factor_mensual == UnoMas(locales.coeficientes)
                   pct_real == PctReal(locales.coeficiente)
                   factor_dia == UnoMas(pct_real)
               IN /\ factor_acumulado' =
                        factor_acumulado \o <<factor_mensual, factor_dia>>
                  /\ Imprime(<<"fila", row.fecha, pct_real, factor_dia>>)
                  /\ i' = i + 1
                  /\ UNCHANGED <<pc, excepcion>>
    /\ UNCHANGED <<input_val, monto_actual, df_ipc, ultimos_4_meses, retorno,
                   peticiones>>

\* lines 91-96: the loop is exhausted
CalcRetorno ==
    /\ pc = "bucle"
    /\ i > Len(ultimos_4_meses)
    /\ Imprime(<<"linea">>)
    /\ retorno' = <<NuevoMonto(monto_actual, factor_acumulado),
                    IncrementoTotalPct(factor_acumulado)>>
    /\ pc' = "resultado"
    /\ UNCHANGED <<input_val, monto_actual, df_ipc, ultimos_4_meses, i,
                   factor_acumulado, excepcion, peticiones>>

-----------------------------------------------------------------------------
(* The run of the script: python calc_renta.py *)

Init ==
    /\ pc = "main"
    /\ input_val = <<>>
    /\ monto_actual = SinMonto
    /\ df_ipc = <<>>
    /\ ultimos_4_meses = <<>>
    /\ i = 0
    /\ factor_acumulado = <<>>
    /\ retorno = <<>>
    /\ excepcion = "ninguna"
    /\ console = <<>>
    /\ peticiones = 0

Next ==
    \/ MainBanner
    \/ MainInput
    \/ ObtenerDatosIpc
    \/ CalcSeleccion
    \/ CalcEncabezado
    \/ CalcIteracion
    \/ CalcRetorno
    \/ MainResultado

Spec == Init /\ [][Next]_vars

(* A call of calcular_ajuste(monto_actual, df_ipc) on its own, with any     *)
(* amount float() can return and any frame, in any row order.              *)

Montos == {ParseFloat(t).valor : t \in {x \in Textos : ParseFloat(x).ok}}

EngineInit ==
    /\ pc = "calcular"
    /\ input_val = <<>>
    /\ monto_actual \in Montos
    /\ df_ipc \in Series
    /\ ultimos_4_meses = <<>>
    /\ i = 0
    /\ factor_acumulado = <<>>
    /\ retorno = <<>>
    /\ excepcion = "ninguna"
    /\ console = <<>>
    /\ peticiones = 0

EngineNext ==
    \/ CalcSeleccion
    \/ CalcEncabezado
    \/ CalcIteracion
    \/ CalcRetorno

EngineSpec == EngineInit /\ [][EngineNext]_vars

-----------------------------------------------------------------------------
(* Properties *)

\* calcular_ajuste has been entered and has selected its window
Seleccionada == pc \in {"encabezado", "bucle", "error", "resultado"}

\* the call of calcular_ajuste is running
EnCalculo == pc \in {"calcular", "encabezado", "bucle"}

\* the call of calcular_ajuste is over: it returned or it raised
CalculoTerminado == pc \in {"error", "resultado"}

\* an amount greater than zero
Positivo(m) == m.mant > 0

FechasDe(s) == {s[k].fecha : k \in 1..Len(s)}

Ascendente(s) == \A a, b \in 1..Len(s) : a < b => s[a].fecha < s[b].fecha

Descendente(s) == \A a, b \in 1..Len(s) : a < b => s[a].fecha > s[b].fecha

\* the rate the specification prescribes for a raw value, in units of 1/10000
TasaNormalizada(v) == IF v < 20000 THEN v ELSE v \div 100

\* one factor 1 + normalized rate per period of the window, oldest first
FactoresEsperados(w) ==
    [k \in 1..Len(w) |-> 10000 + TasaNormalizada(w[k].valor)]

\* the breakdown rows printed so far
Filas == SelectSeq(console, LAMBDA l : l[1] = "fila")

\* C1: a call with a positive amount and a non-empty series whose window
\* has only valid rates returns, and the amount it returns is the base
\* amount times exactly one factor 1 + normalized rate per window period.
C1_ReturnsCompoundedProduct ==
    (/\ CalculoTerminado
     /\ Positivo(monto_actual)
     /\ df_ipc # <<>>
     /\ \A k \in 1..Len(ultimos_4_meses) :
            TasaNormalizada(ultimos_4_meses[k].valor) > -10000)
    => (/\ pc = "resultado"
        /\ retorno[1] = [base |-> monto_actual,
                         factores |-> FactoresEsperados(ultimos_4_meses)])

\* C2: once the amount is parsed and is zero or negative, the series is
\* never requested, the engine is never entered and nothing is returned.
C2_NonPositiveRejectedBeforeFetch ==
    (/\ pc \notin {"main", "input"}
     /\ ParseFloat(input_val).ok
     /\ ~Positivo(monto_actual))
    => (/\ peticiones = 0
        /\ df_ipc = <<>>
        /\ ~EnCalculo /\ ~CalculoTerminado
        /\ retorno = <<>>)

\* C3: when the call is over, the factors that entered the cumulative
\* factor are 1 + normalized rate of each window period and nothing else,
\* the normalized rate being the raw value below 2.0 and a hundredth of it
\* from 2.0 on.
C3_OnlyNormalizedRateCompounded ==
    (CalculoTerminado /\ ultimos_4_meses # <<>>)
    => factor_acumulado = FactoresEsperados(ultimos_4_meses)

\* C4: a call whose window holds a period with normalized rate <= -1 ends
\* with InvalidRate and returns nothing.
C4_InvalidRateRejected ==
    (/\ CalculoTerminado
     /\ \E k \in 1..Len(ultimos_4_meses) :
            TasaNormalizada(ultimos_4_meses[k].valor) <= -10000)
    => (excepcion = "InvalidRate" /\ retorno = <<>>)

\* C5: a call handed an empty series ends with DataUnavailable and returns
\* no result.
C5_EmptySeriesRejected ==
    (CalculoTerminado /\ df_ipc = <<>>)
    => (excepcion = "DataUnavailable" /\ retorno = <<>>)

\* C6: a call on a non-empty series shorter than the window returns, having
\* compounded as many periods as the series has.
C6_PartialCoverageReturns ==
    (CalculoTerminado /\ df_ipc # <<>> /\ Len(df_ipc) < TamVentana)
    => (/\ pc = "resultado"
        /\ Len(retorno[1].factores) = Min(TamVentana, Len(df_ipc)))

C8_NoConsoleOutput == [][EnCalculo => console' = console]_vars

\* C8 as amended: no step of a call of calcular_ajuste makes a request or
\* changes the series it was given or the caller's amount and text.
C8_NoNetworkNoInputChange ==
    [][EnCalculo => /\ peticiones' = peticiones
                    /\ df_ipc' = df_ipc
                    /\ monto_actual' = monto_actual
                    /\ input_val' = input_val]_vars

C8_Witness ==
    /\ CalculoTerminado
    /\ console # <<>>
    /\ Len(df_ipc) > TamVentana
    /\ ~Ascendente(df_ipc)

\* C9: once a text float() rejects has been read, the run is over with the
\* rejection message only: no request was made, the engine was not entered
\* and nothing was returned or printed as a result.
C9_NonNumericEndsRun ==
    (pc \notin {"main", "input"} /\ ~ParseFloat(input_val).ok)
    => (/\ pc = "fin"
        /\ peticiones = 0
        /\ df_ipc = <<>>
        /\ retorno = <<>>
        /\ console = <<<<"banner">>, <<"numero invalido">>>>)

C9_Witness ==
    /\ pc = "fin"
    /\ input_val # <<>>
    /\ ~ParseFloat(input_val).ok

\* the TamVentana greatest periods of s
MasRecientes(s) ==
    {f \in FechasDe(s) :
        Cardinality({g \in FechasDe(s) : g > f}) < TamVentana}

\* C10 as stated: for a series longer than the window, in any order, the
\* window is the TamVentana periods with the greatest period_start.
C10_WindowIsMostRecent ==
    (Seleccionada /\ Len(df_ipc) > TamVentana)
    => FechasDe(ultimos_4_meses) = MasRecientes(df_ipc)

\* C10 as amended: the window is the first TamVentana rows of the series as
\* supplied, and these are the TamVentana greatest periods when the series
\* is supplied in descending order.
C10_WindowIsHeadOfInput ==
    (Seleccionada /\ Len(df_ipc) > TamVentana)
    => (/\ FechasDe(ultimos_4_meses)
              = {df_ipc[k].fecha : k \in 1..TamVentana}
        /\ Descendente(df_ipc)
              => FechasDe(ultimos_4_meses) = MasRecientes(df_ipc))

C10_Witness ==
    /\ Seleccionada
    /\ Len(df_ipc) > TamVentana
    /\ Descendente(df_ipc)
    /\ Len(ultimos_4_meses) = TamVentana

====
